---- MODULE Spec2Model ----
(***************************************************************************)
(* State modules and execution modules of mitodl/salt-extensions:          *)
(*   _states/boto_cloudfront.py, _modules/boto_cloudfront.py               *)
(*   _states/heroku.py, _modules/heroku.py                                 *)
(*   _states/vault.py                                                      *)
(*   _modules/testinframod.py                                              *)
(*                                                                         *)
(* Python dicts are TLA+ functions whose domain is the dict's key set.     *)
(* Python None / True / False held in a dict are the strings "None",       *)
(* "True", "False" so that a dict value can be compared with any other.    *)
(* A comment string built with str.format is the sequence of its parts;    *)
(* the empty string '' is the empty sequence.                              *)
(***************************************************************************)
EXTENDS Integers, Sequences, FiniteSets, TLC

(***************************************************************************)
(* Bounds                                                                  *)
(***************************************************************************)
\* number of distinct values a config var / tag / config attribute can take
MaxVal == 2
\* largest integer an observed value or match value of an assertion takes
MaxInt == 2

(***************************************************************************)
(* Python helpers                                                          *)
(***************************************************************************)
EmptyDict == <<>>

Vals == 1..MaxVal

\* every dict with keys among K and values among V
Dicts(K, V) == UNION {[D -> V] : D \in SUBSET K}

\* d[k] = v
DictSet(d, k, v) == [x \in (DOMAIN d) \cup {k} |-> IF x = k THEN v ELSE d[x]]

\* d.update(e)
DictUpdate(d, e) ==
    [x \in (DOMAIN d) \cup (DOMAIN e) |-> IF x \in DOMAIN e THEN e[x] ELSE d[x]]

\* d without the keys in S
DictRemove(d, S) == [x \in (DOMAIN d) \ S |-> d[x]]

\* dict(set(a.items()).difference(set(b.items())))
ItemsDifference(a, b) ==
    [k \in {x \in DOMAIN a : ~(x \in DOMAIN b /\ b[x] = a[x])} |-> a[k]]

\* salt.utils.dictdiffer.deep_diff on two flat dicts: the entries of each
\* side that are missing from, or differ on, the other side; a side with no
\* such entry has no key in the result.
deep_diff(old, new) ==
    LET o == ItemsDifference(old, new)
        n == ItemsDifference(new, old)
    IN  [k \in (IF DOMAIN o # {} THEN {"old"} ELSE {})
               \cup (IF DOMAIN n # {} THEN {"new"} ELSE {})
           |-> IF k = "old" THEN o ELSE n]

PyBool(b) == IF b THEN "True" ELSE "False"

(***************************************************************************)
(* _modules/boto_cloudfront.py                                             *)
(*                                                                         *)
(* AWS holds at most one distribution carrying the Name tag DistName.  A   *)
(* distribution object is [exists, config, tags]; `tags` is the tag dict   *)
(* with the Name tag popped, as _list_distributions builds it.             *)
(***************************************************************************)
DistName == "cdn"
ConfigKeys == {"Enabled"}
TagKeys == {"env"}
Configs == [ConfigKeys -> Vals]
Tags == Dicts(TagKeys, Vals)

NoneDist == [exists |-> FALSE, config |-> EmptyDict, tags |-> EmptyDict]
Dist(config, tags) == [exists |-> TRUE, config |-> config, tags |-> tags]
Dists == {NoneDist} \cup {Dist(c, t) : c \in Configs, t \in Tags}

ClientError == "ClientError"

\* get_distribution: the cached object if there is one, else the listing;
\* a distribution that is found is cached.  listFails: the listing raises
\* botocore ClientError.  Returns the function's return dict and the cache.
get_distribution(awsNow, cacheNow, listFails) ==
    IF cacheNow.exists
    THEN [r |-> [result |-> cacheNow], cache |-> cacheNow]
    ELSE IF listFails
    THEN [r |-> [error |-> ClientError], cache |-> cacheNow]
    ELSE IF ~awsNow.exists
    THEN [r |-> [result |-> NoneDist], cache |-> cacheNow]
    ELSE [r |-> [result |-> awsNow], cache |-> awsNow]

\* create_distribution: one create_distribution_with_tags call, then the
\* cache entry is invalidated.  apiFails: the call raises ClientError.
create_distribution(name, config, tags, awsNow, cacheNow, apiFails) ==
    IF "Name" \in DOMAIN tags /\ tags["Name"] # name
    THEN [r |-> [error |-> "Must not pass Name in tags but as name"],
          aws |-> awsNow, cache |-> cacheNow, api |-> <<>>]
    ELSE IF apiFails
    THEN [r |-> [error |-> ClientError], aws |-> awsNow, cache |-> cacheNow,
          api |-> <<"create_distribution_with_tags">>]
    ELSE [r |-> [result |-> "True"],
          aws |-> Dist(config, DictRemove(tags, {"Name"})),
          cache |-> NoneDist,
          api |-> <<"create_distribution_with_tags">>]

\* The boto3 calls update_distribution issues, in order, for the object r
\* it read: update_distribution when the config differs; tag_resource with
\* the 'new' side of the tag diff and untag_resource with the keys of its
\* 'old' side, both only when the desired tags are non-empty.
update_api_calls(r, config, tags) ==
    LET config_diff == deep_diff(r.config, config)
        tags_diff == deep_diff(r.tags, tags)
        c1 == IF "old" \in DOMAIN config_diff \/ "new" \in DOMAIN config_diff
              THEN <<[op |-> "update_distribution", arg |-> config]>>
              ELSE <<>>
        c2 == IF DOMAIN tags # {} /\ "new" \in DOMAIN tags_diff
              THEN <<[op |-> "tag_resource", arg |-> tags_diff["new"]]>>
              ELSE <<>>
        c3 == IF DOMAIN tags # {} /\ "old" \in DOMAIN tags_diff
              THEN <<[op |-> "untag_resource",
                      arg |-> tags_diff["old"]]>>
              ELSE <<>>
    IN  c1 \o c2 \o c3

\* The effect of one boto3 call on the distribution AWS holds.
api_effect(d, call) ==
    IF call.op = "update_distribution"
    THEN [d EXCEPT !.config = call.arg]
    ELSE IF call.op = "tag_resource"
    THEN [d EXCEPT !.tags = DictUpdate(d.tags, call.arg)]
    ELSE [d EXCEPT !.tags = DictRemove(d.tags, DOMAIN call.arg)]

RECURSIVE api_effects(_, _, _)
\* the first n calls of `calls` applied in order
api_effects(d, calls, n) ==
    IF n = 0 THEN d
    ELSE api_effect(api_effects(d, calls, n - 1), calls[n])

\* update_distribution without its finally clause: the cache entry is kept
update_distribution_keeps_cache(name, config, tags, awsNow, cacheNow, listFails, failAt) ==
    LET g == get_distribution(awsNow, cacheNow, listFails)
    IN  IF "error" \in DOMAIN g.r
        THEN [raised |-> "", r |-> g.r, aws |-> awsNow, cache |-> g.cache,
              api |-> <<>>]
        ELSE IF ~g.r.result.exists
        THEN [raised |-> "TypeError", r |-> EmptyDict, aws |-> awsNow,
              cache |-> g.cache, api |-> <<>>]
        ELSE LET calls == update_api_calls(g.r.result, config, tags)
                 fails == failAt \in 1..Len(calls)
                 done == IF fails THEN failAt - 1 ELSE Len(calls)
                 issued == IF fails THEN failAt ELSE Len(calls)
             IN  [raised |-> "",
                  r |-> IF fails THEN [error |-> ClientError]
                        ELSE [result |-> "True"],
                  aws |-> IF awsNow.exists
                          THEN api_effects(awsNow, calls, done)
                          ELSE awsNow,
                  cache |-> g.cache,
                  api |-> [i \in 1..issued |-> calls[i].op]]

\* update_distribution.  failAt = 0: no boto3 call fails; failAt = k: the
\* k-th call issued (if there is one) raises ClientError, the calls before
\* it took effect.  The finally clause invalidates the cache entry whenever
\* the try block was entered.
update_distribution(name, config, tags, awsNow, cacheNow, listFails, failAt) ==
    LET g == get_distribution(awsNow, cacheNow, listFails)
    IN  IF "error" \in DOMAIN g.r
        THEN [raised |-> "", r |-> g.r, aws |-> awsNow, cache |-> g.cache,
              api |-> <<>>]
        ELSE IF ~g.r.result.exists
        THEN [raised |-> "TypeError", r |-> EmptyDict, aws |-> awsNow,
              cache |-> g.cache, api |-> <<>>]
        ELSE LET calls == update_api_calls(g.r.result, config, tags)
                 fails == failAt \in 1..Len(calls)
                 done == IF fails THEN failAt - 1 ELSE Len(calls)
                 issued == IF fails THEN failAt ELSE Len(calls)
             IN  [raised |-> "",
                  r |-> IF fails THEN [error |-> ClientError]
                        ELSE [result |-> "True"],
                  aws |-> IF awsNow.exists
                          THEN api_effects(awsNow, calls, done)
                          ELSE awsNow,
                  cache |-> NoneDist,
                  api |-> [i \in 1..issued |-> calls[i].op]]

(***************************************************************************)
(* _states/boto_cloudfront.py                                              *)
(*                                                                         *)
(* A state function is an operator from its arguments, __opts__['test'],   *)
(* the state of the external system and the collaborators' outcomes to     *)
(*   ret    the dict it returns (when raised = "")                         *)
(*   raised the exception that escapes it ("" when it returns)             *)
(*   calls  the __salt__ calls it made, in order, each with its return     *)
(* and the state it leaves behind.                                         *)
(***************************************************************************)
Call(fn, args, r) == [fn |-> fn, args |-> args, r |-> r]

\* present_create with 'old' and 'new' of the change record swapped
present_create_swapped(name, config, tags, test, awsNow, cacheNow, failAt, ret, c0) ==
    IF test
    THEN [raised |-> "", calls |-> c0, aws |-> awsNow, cache |-> cacheNow,
          ret |-> DictUpdate(ret,
                    [result |-> "None",
                     comment |-> <<"Distribution ", name,
                                   " set for creation">>,
                     pchanges |-> [old |-> name, new |-> "None"]])]
    ELSE LET c == create_distribution(name, config, tags, awsNow, cacheNow,
                                      failAt = 1)
             c1 == c0 \o <<Call("boto_cloudfront.create_distribution",
                                <<name, config, tags>>, c.r)>>
         IN  IF "error" \in DOMAIN c.r
             THEN [raised |-> "", calls |-> c1, aws |-> c.aws,
                   cache |-> c.cache,
                   ret |-> DictUpdate(ret,
                             [result |-> "False",
                              comment |-> <<"Error creating distribution: ",
                                            c.r.error>>])]
             ELSE [raised |-> "", calls |-> c1, aws |-> c.aws,
                   cache |-> c.cache,
                   ret |-> DictUpdate(ret,
                             [result |-> "True",
                              comment |-> <<"Created distribution ", name>>,
                              changes |-> [old |-> name, new |-> "None"]])]

\* present, `if old is None:` -- the distribution does not exist.
\* ret: the dict built so far; c0: the calls made so far.
present_create(name, config, tags, test, awsNow, cacheNow, failAt, ret, c0) ==
    IF test
    THEN [raised |-> "", calls |-> c0, aws |-> awsNow, cache |-> cacheNow,
          ret |-> DictUpdate(ret,
                    [result |-> "None",
                     comment |-> <<"Distribution ", name,
                                   " set for creation">>,
                     pchanges |-> [old |-> "None", new |-> name]])]
    ELSE LET c == create_distribution(name, config, tags, awsNow, cacheNow,
                                      failAt = 1)
             c1 == c0 \o <<Call("boto_cloudfront.create_distribution",
                                <<name, config, tags>>, c.r)>>
         IN  IF "error" \in DOMAIN c.r
             THEN [raised |-> "", calls |-> c1, aws |-> c.aws,
                   cache |-> c.cache,
                   ret |-> DictUpdate(ret,
                             [result |-> "False",
                              comment |-> <<"Error creating distribution: ",
                                            c.r.error>>])]
             ELSE [raised |-> "", calls |-> c1, aws |-> c.aws,
                   cache |-> c.cache,
                   ret |-> DictUpdate(ret,
                             [result |-> "True",
                              comment |-> <<"Created distribution ", name>>,
                              changes |-> [old |-> "None", new |-> name]])]

\* present, `else:` -- the distribution `old` exists.
present_update(name, config, tags, test, awsNow, cacheNow, listFails, failAt, old, ret, c0) ==
    LET full_config_old == [config |-> old.config, tags |-> old.tags]
        full_config_new == [config |-> config, tags |-> tags]
        diffed_config == deep_diff(full_config_old, full_config_new)
        changes_diff == <<full_config_old, full_config_new>>
        any_changes == "old" \in DOMAIN diffed_config
                       \/ "new" \in DOMAIN diffed_config
    IN
    IF ~any_changes
    THEN [raised |-> "", calls |-> c0, aws |-> awsNow, cache |-> cacheNow,
          ret |-> DictUpdate(ret,
                    [result |-> "True",
                     coment |-> <<"Distribution ", name,
                                  " has correct config">>])]
    ELSE IF test
    THEN [raised |-> "", calls |-> c0, aws |-> awsNow, cache |-> cacheNow,
          ret |-> DictUpdate(ret,
                    [result |-> "None",
                     comment |-> <<"Distribution {0} set for new config:",
                                   "changes_diff">>,
                     pchanges |-> [diff |-> changes_diff]])]
    ELSE LET u == update_distribution(name, config, tags, awsNow, cacheNow,
                                      listFails, failAt)
             c1 == c0 \o <<Call("boto_cloudfront.update_distribution",
                                <<name, config, tags>>, u.r)>>
         IN  IF u.raised # ""
             THEN [raised |-> u.raised, calls |-> c1, aws |-> u.aws,
                   cache |-> u.cache, ret |-> EmptyDict]
             ELSE IF "error" \in DOMAIN u.r
             THEN [raised |-> "", calls |-> c1, aws |-> u.aws,
                   cache |-> u.cache,
                   ret |-> DictUpdate(ret,
                             [result |-> "False",
                              comment |-> <<"Error updating distribution: ",
                                            u.r.error>>])]
             ELSE [raised |-> "", calls |-> c1, aws |-> u.aws,
                   cache |-> u.cache,
                   ret |-> DictUpdate(ret,
                             [result |-> "True",
                              comment |-> <<"Updated distribution ", name,
                                            ".">>,
                              changes |-> [diff |-> changes_diff]])]

present(name, config, tags, test, awsNow, cacheNow, listFails, failAt) ==
    LET ret == [name |-> name, comment |-> <<>>, changes |-> EmptyDict]
        g == get_distribution(awsNow, cacheNow, listFails)
        c0 == <<Call("boto_cloudfront.get_distribution", <<name>>, g.r)>>
    IN
    IF "error" \in DOMAIN g.r
    THEN [raised |-> "", calls |-> c0, aws |-> awsNow, cache |-> g.cache,
          ret |-> DictUpdate(ret,
                    [result |-> "False",
                     comment |-> <<"Error checking distribution: ",
                                   g.r.error>>])]
    ELSE IF ~g.r.result.exists
    THEN present_create(name, config, tags, test, awsNow, g.cache, failAt,
                        ret, c0)
    ELSE present_update(name, config, tags, test, awsNow, g.cache, listFails,
                        failAt, g.r.result, ret, c0)

(***************************************************************************)
(* _modules/heroku.py                                                      *)
(*                                                                         *)
(* Heroku holds the app's config vars, a dict.  In a PATCH body a var      *)
(* whose value is null (NoneVal) is deleted.                               *)
(***************************************************************************)
AppName == "app"
HerokuKeys == {"A"}
NoneVal == 0
ConfigVars == Dicts(HerokuKeys, Vals)
\* What list_app_config_vars returns: a dict, or False.
HDict(d) == [isdict |-> TRUE, vars |-> d]
HFalse == [isdict |-> FALSE, vars |-> EmptyDict]

\* list_app_config_vars: what _query returns, the app's config vars, or
\* False when the request failed.
list_app_config_vars(herokuNow, fails) ==
    IF fails THEN HFalse ELSE HDict(herokuNow)

\* the config vars after a successful PATCH with body `data`
patch_config_vars(herokuNow, data) ==
    LET set == {k \in DOMAIN data : data[k] # NoneVal}
        del == {k \in DOMAIN data : data[k] = NoneVal}
    IN  [k \in ((DOMAIN herokuNow) \ del) \cup set |->
            IF k \in set THEN data[k] ELSE herokuNow[k]]

\* update_app_config_vars: bool() of what _query returns, which is the
\* app's config vars after the PATCH, or False when the request failed.
module_update_app_config_vars(herokuNow, data, fails) ==
    IF fails
    THEN [r |-> "False", heroku |-> herokuNow]
    ELSE LET after == patch_config_vars(herokuNow, data)
         IN  [r |-> PyBool(DOMAIN after # {}), heroku |-> after]

(***************************************************************************)
(* _states/heroku.py                                                       *)
(*                                                                         *)
(* G is the record of the three module globals                             *)
(* [flags |-> diff_heroku_pillar_dict, hdiff |-> heroku_diff_dict,         *)
(*  pdiff |-> pillar_diff_dict].                                           *)
(***************************************************************************)
FlagNames == {"key_or_value_mismatch", "heroku_not_pillar", "pillar_not_heroku"}
InitialFlags == [f \in FlagNames |-> FALSE]

\* all() where the code has any()
AllFlags(flags) == \A f \in FlagNames : flags[f]

\* any(v for v in diff_heroku_pillar_dict.values())
AnyFlag(flags) == \E f \in FlagNames : flags[f]

_diff_heroku_pillar_vars(app_config_vars, config_vars, G) ==
    LET differ == app_config_vars # config_vars
        la == Cardinality(DOMAIN app_config_vars)
        lc == Cardinality(DOMAIN config_vars)
    IN  [flags |-> [f \in FlagNames |->
                      IF f = "key_or_value_mismatch" THEN differ \/ G.flags[f]
                      ELSE IF f = "heroku_not_pillar"
                      THEN (la - lc > 0) \/ G.flags[f]
                      ELSE (la - lc < 0) \/ G.flags[f]],
         hdiff |-> IF differ THEN ItemsDifference(app_config_vars, config_vars)
                   ELSE G.hdiff,
         pdiff |-> IF differ THEN ItemsDifference(config_vars, app_config_vars)
                   ELSE G.pdiff]

_diff_app_config_vars(name, config_vars, herokuNow, G, fetchFails) ==
    LET ret == [name |-> name, comment |-> <<>>, result |-> "None",
                changes |-> EmptyDict]
        l == list_app_config_vars(herokuNow, fetchFails)
        c0 == <<Call("heroku.list_app_config_vars", <<name>>, l)>>
    IN  \* False has no .items(): AttributeError, caught by the bare except
        IF ~l.isdict
        THEN [ret |-> DictSet(ret, "result", "False"), G |-> G, calls |-> c0]
        ELSE LET G1 == _diff_heroku_pillar_vars(l.vars, config_vars, G)
             IN  IF ~AnyFlag(G1.flags)
                 THEN [ret |-> DictUpdate(ret,
                                 [result |-> "True",
                                  comment |-> <<"No changes detected">>]),
                       G |-> G1, calls |-> c0]
                 ELSE [ret |-> DictUpdate(ret,
                                 [result |-> "False",
                                  comment |-> <<"Pillar and Heroku mismatch">>,
                                  changes |->
                                    [old |-> [heroku |-> G1.hdiff,
                                              pillar |-> G1.pdiff]]]),
                       G |-> G1, calls |-> c0]

update_app_config_vars(name, config_vars, test, herokuNow, G, fetchFails, applyFails, refetchFails) ==
    LET ret == [name |-> name, comment |-> <<>>, result |-> "True",
                changes |-> EmptyDict]
        d == _diff_app_config_vars(name, config_vars, herokuNow, G,
                                   fetchFails)
    IN
    IF test
    THEN [raised |-> "", calls |-> d.calls, heroku |-> herokuNow, G |-> d.G,
          ret |-> DictUpdate(ret,
                    [result |-> "None",
                     comment |-> <<"Following changes would be performed">>,
                     changes |-> d.ret])]
    ELSE IF AnyFlag(d.G.flags)
    THEN LET u == module_update_app_config_vars(herokuNow, config_vars,
                                                applyFails)
             l == list_app_config_vars(u.heroku, refetchFails)
             c1 == d.calls
                   \o <<Call("heroku.update_app_config_vars",
                             <<name, config_vars>>, u.r),
                        Call("heroku.list_app_config_vars", <<name>>, l)>>
         IN  [raised |-> "", calls |-> c1, heroku |-> u.heroku, G |-> d.G,
              ret |-> DictSet(ret, "changes", [new |-> [heroku |-> l]])]
    ELSE [raised |-> "", calls |-> d.calls, heroku |-> herokuNow, G |-> d.G,
          ret |-> ret]

\* failAt = k: the k-th heroku.update_app_config_vars call fails.
override_app_config_vars(name, config_vars, test, herokuNow, fetchFails, failAt) ==
    LET ret == [name |-> name,
                comment |-> <<"Heroku config variables have been overwritten">>,
                result |-> "True",
                changes |-> EmptyDict]
        l == list_app_config_vars(herokuNow, fetchFails)
        c0 == <<Call("heroku.list_app_config_vars", <<name>>, l)>>
    IN
    IF test
    THEN [raised |-> "", calls |-> c0, heroku |-> herokuNow,
          ret |-> DictUpdate(ret,
                    [result |-> "None",
                     comment |-> <<"Following changes would be performed">>,
                     changes |-> config_vars])]
    \* dict.fromkeys(False): TypeError, caught by the bare except
    ELSE IF ~l.isdict
    THEN [raised |-> "", calls |-> c0, heroku |-> herokuNow,
          ret |-> DictSet(ret, "result", "False")]
    ELSE LET app_config_vars == l.vars
             empty_values == [k \in DOMAIN app_config_vars |-> NoneVal]
             u1 == module_update_app_config_vars(herokuNow, empty_values,
                                                 failAt = 1)
             u2 == module_update_app_config_vars(u1.heroku, config_vars,
                                                 failAt = 2)
             c1 == c0
                   \o <<Call("heroku.update_app_config_vars",
                             <<name, empty_values>>, u1.r),
                        Call("heroku.update_app_config_vars",
                             <<name, config_vars>>, u2.r)>>
         IN  [raised |-> "", calls |-> c1, heroku |-> u2.heroku,
              ret |-> DictSet(ret, "changes",
                              [old |-> [heroku |-> app_config_vars],
                               new |-> [heroku |-> config_vars]])]

(***************************************************************************)
(* _modules/vault.py and _states/vault.py                                  *)
(*                                                                         *)
(* The state functions keep no state of their own; what Vault holds when   *)
(* a function is called is an input of the call.                           *)
(***************************************************************************)
VaultName == "vault"
VaultOutcomes == {"ok", "False", "raise"}

\* initialize: (success, sealing_keys, root_token).  "False": a VaultError
\* after client.initialize returned; "raise": client.initialize raised, so
\* root_token is unbound at the return statement.
vault_initialize(outcome) ==
    IF outcome = "ok"
    THEN [raised |-> "", success |-> "True", sealing_keys |-> "keys",
          root_token |-> "token"]
    ELSE IF outcome = "False"
    THEN [raised |-> "", success |-> "False", sealing_keys |-> "None",
          root_token |-> "token"]
    ELSE [raised |-> "UnboundLocalError", success |-> "False",
          sealing_keys |-> "None", root_token |-> "None"]

initialized(name, test, is_initialized, outcome) ==
    LET ret == [name |-> name, comment |-> <<>>, result |-> "",
                changes |-> EmptyDict]
        c0 == <<Call("vault.is_initialized", <<>>, PyBool(is_initialized))>>
    IN
    IF is_initialized
    THEN [raised |-> "", calls |-> c0,
          ret |-> DictUpdate(ret,
                    [result |-> "True",
                     Comment |-> <<"Vault is already initialized">>])]
    ELSE IF test
    THEN [raised |-> "", calls |-> c0,
          ret |-> DictUpdate(ret,
                    [result |-> "None",
                     comment |-> <<"Vault will be initialized.">>])]
    ELSE LET i == vault_initialize(outcome)
             c1 == c0 \o <<Call("vault.initialize", <<>>, i.success)>>
         IN  IF i.raised # ""
             THEN [raised |-> i.raised, calls |-> c1, ret |-> EmptyDict]
             ELSE [raised |-> "", calls |-> c1,
                   ret |-> DictUpdate(ret,
                     [result |-> i.success,
                      changes |->
                        [root_credentials |->
                           [new |-> [sealing_keys |-> i.sealing_keys,
                                     root_token |-> i.root_token],
                            old |-> EmptyDict]],
                      comment |-> <<"Vault has ",
                                    IF i.success = "True" THEN ""
                                    ELSE "failed to be ",
                                    "initialized">>])]

\* A mount path is <<name, "/">>; path.strip('/') is the name.
BackendTypes == {"github", "ldap"}
MountPath(n) == <<n, "/">>
Strip(path) == path[1]
Backends == Dicts({MountPath("github")}, BackendTypes)

\* the loop of auth_backend_enabled / audit_backend_enabled over the mounts
backend_enabled(backends, backend_type, mount_point) ==
    \E path \in DOMAIN backends :
        \/ Strip(path) = mount_point
        \/ (backend_type # "" /\ backends[path] = backend_type)

\* the mounts after enable_auth_backend / enable_audit_backend succeeded
mounted(backends, backend_type, mount_point) ==
    DictSet(backends,
            MountPath(IF mount_point = "None" THEN backend_type
                      ELSE mount_point),
            backend_type)

auth_backend_enabled(name, backend_type, mount_point, test, backends, fails) ==
    LET ret == [name |-> name, comment |-> <<>>, result |-> "",
                changes |-> [old |-> backends]]
        c0 == <<Call("vault.list_auth_backends", <<>>, backends),
                Call("vault.list_auth_backends", <<>>, backends)>>
    IN
    IF backend_enabled(backends, backend_type, mount_point)
    THEN [raised |-> "", calls |-> c0,
          ret |-> DictUpdate(ret,
                    [comment |-> <<"The ", backend_type,
                                   " backend mounted at ", mount_point,
                                   " is already enabled.">>,
                     result |-> "True"])]
    ELSE IF test
    THEN [raised |-> "", calls |-> c0, ret |-> DictSet(ret, "result", "None")]
    ELSE LET comment == <<"The ", backend_type,
                          " has been successfully mounted at ", mount_point,
                          ".">>
         IN  IF fails
             THEN [raised |-> "",
                   calls |-> c0 \o <<Call("vault.enable_auth_backend",
                                          <<backend_type, mount_point>>,
                                          "VaultError")>>,
                   ret |-> DictUpdate(ret, [result |-> "False",
                                            comment |-> comment])]
             ELSE LET after == mounted(backends, backend_type, mount_point)
                  IN  [raised |-> "",
                       calls |-> c0 \o <<Call("vault.enable_auth_backend",
                                              <<backend_type, mount_point>>,
                                              "None"),
                                         Call("vault.list_auth_backends",
                                              <<>>, after)>>,
                       ret |-> DictUpdate(ret,
                                 [result |-> "True",
                                  changes |-> [old |-> backends,
                                               new |-> after],
                                  comment |-> comment])]

audit_backend_enabled(name, backend_type, mount_point, test, backends, fails) ==
    LET ret == [name |-> name, comment |-> <<>>, result |-> "",
                changes |-> [audit_backends |-> [old |-> backends]]]
        c0 == <<Call("vault.list_audit_backends", <<>>, backends),
                Call("vault.list_audit_backends", <<>>, backends)>>
    IN
    IF backend_enabled(backends, backend_type, mount_point)
    THEN [raised |-> "", calls |-> c0,
          ret |-> DictUpdate(ret,
                    [comment |-> <<"The ", backend_type,
                                   " backend mounted at ", mount_point,
                                   " is already enabled.">>,
                     result |-> "True"])]
    ELSE IF test
    THEN [raised |-> "", calls |-> c0, ret |-> DictSet(ret, "result", "None")]
    ELSE IF fails
    THEN [raised |-> "",
          calls |-> c0 \o <<Call("vault.enable_audit_backend",
                                 <<backend_type, mount_point>>,
                                 "VaultError")>>,
          ret |-> DictSet(ret, "result", "False")]
    \* ret['changes']['backends'] does not exist: KeyError after the mount
    ELSE [raised |-> "KeyError",
          calls |-> c0 \o <<Call("vault.enable_audit_backend",
                                 <<backend_type, mount_point>>, "None"),
                            Call("vault.list_audit_backends", <<>>,
                                 mounted(backends, backend_type,
                                         mount_point))>>,
          ret |-> EmptyDict]

\* What vault.get_app_id / vault.get_ec2_role return: a dict that may have a
\* 'data' entry, which is None or a dict with 'policies'.
Policies == {"p1", "p2"}
NoData == [isNone |-> TRUE, policies |-> "None"]
Data(p) == [isNone |-> FALSE, policies |-> p]
VaultReads == {EmptyDict, [data |-> NoData]} \cup {[data |-> Data(p)] : p \in Policies}

app_id_created(app_id, policies, test, current_id, fails) ==
    LET ret == [name |-> app_id, comment |-> <<>>, result |-> "False",
                changes |-> EmptyDict]
        c0 == <<Call("vault.get_app_id", <<app_id>>, current_id)>>
        has_data == "data" \in DOMAIN current_id /\ ~current_id["data"].isNone
    IN
    IF has_data /\ current_id["data"].policies = policies
    THEN [raised |-> "", calls |-> c0,
          ret |-> DictUpdate(ret,
                    [result |-> "True",
                     comment |-> <<"The app-id ", app_id,
                                   " exists with the specified policies">>])]
    ELSE IF test
    THEN IF "data" \notin DOMAIN current_id
         THEN [raised |-> "KeyError", calls |-> c0, ret |-> EmptyDict]
         ELSE IF current_id["data"].isNone
         THEN [raised |-> "", calls |-> c0,
               ret |-> DictUpdate(ret,
                         [result |-> "None",
                          changes |-> [old |-> EmptyDict],
                          comment |-> <<"The app-id ", app_id,
                                        " will be created.">>])]
         ELSE [raised |-> "", calls |-> c0,
               ret |-> DictUpdate(ret,
                         [result |-> "None",
                          changes |-> [old |-> current_id],
                          comment |-> <<"The app-id ", app_id,
                                        " will have its policies updated">>])]
    ELSE IF fails
    THEN [raised |-> "",
          calls |-> c0 \o <<Call("vault.create_app_id", <<app_id, policies>>,
                                 "VaultError")>>,
          ret |-> DictUpdate(ret,
                    [result |-> "False",
                     comment |-> <<"Encountered an error while attempting to ",
                                   "create app id.">>])]
    ELSE LET after == [data |-> Data(policies)]
         IN  [raised |-> "",
              calls |-> c0 \o <<Call("vault.create_app_id",
                                     <<app_id, policies>>, "None"),
                                Call("vault.get_app_id", <<app_id>>, after)>>,
              ret |-> DictUpdate(ret,
                        [result |-> "True",
                         comment |-> <<"Successfully created app-id ", app_id>>,
                         changes |-> [old |-> current_id, new |-> after]])]

\* Policy rules; "None" is the None vault.get_policy returns for no policy.
Rules == {"r1", "r2"}

\* policy_created without the `elif __opts__['test']` branch
policy_created_notest(name, rules, test, current_policy, fails) ==
    LET ret == [name |-> name, comment |-> <<>>, result |-> "False",
                changes |-> EmptyDict]
        c0 == <<Call("vault.get_policy", <<name>>, current_policy)>>
    IN
    IF current_policy = rules
    THEN [raised |-> "", calls |-> c0,
          ret |-> DictUpdate(ret,
                    [result |-> "True",
                     comment |-> <<"The ", name, " policy already exists ",
                                   "with the given rules.">>])]
    ELSE IF fails
    THEN [raised |-> "",
          calls |-> c0 \o <<Call("vault.set_policy", <<name, rules>>,
                                 "VaultError")>>,
          ret |-> DictSet(ret, "comment",
                          <<"The ", name, " policy failed to be ",
                            "created/updated">>)]
    ELSE [raised |-> "",
          calls |-> c0 \o <<Call("vault.set_policy", <<name, rules>>, "None")>>,
          ret |-> DictUpdate(ret,
                    [result |-> "True",
                     comment |-> <<"The ", name, " policy was successfully ",
                                   "created/updated.">>,
                     changes |-> [old |-> current_policy, new |-> rules]])]

policy_created(name, rules, test, current_policy, fails) ==
    LET ret == [name |-> name, comment |-> <<>>, result |-> "False",
                changes |-> EmptyDict]
        c0 == <<Call("vault.get_policy", <<name>>, current_policy)>>
    IN
    IF current_policy = rules
    THEN [raised |-> "", calls |-> c0,
          ret |-> DictUpdate(ret,
                    [result |-> "True",
                     comment |-> <<"The ", name, " policy already exists ",
                                   "with the given rules.">>])]
    ELSE IF test
    THEN [raised |-> "", calls |-> c0,
          ret |-> DictUpdate(ret,
                    [result |-> "None",
                     changes |-> IF current_policy # "None"
                                 THEN [old |-> current_policy, new |-> rules]
                                 ELSE EmptyDict,
                     comment |-> <<"The ", name, " policy will be ",
                                   IF current_policy # "None" THEN "updated"
                                   ELSE "created", ".">>])]
    ELSE IF fails
    THEN [raised |-> "",
          calls |-> c0 \o <<Call("vault.set_policy", <<name, rules>>,
                                 "VaultError")>>,
          ret |-> DictSet(ret, "comment",
                          <<"The ", name, " policy failed to be ",
                            "created/updated">>)]
    ELSE [raised |-> "",
          calls |-> c0 \o <<Call("vault.set_policy", <<name, rules>>, "None")>>,
          ret |-> DictUpdate(ret,
                    [result |-> "True",
                     comment |-> <<"The ", name, " policy was successfully ",
                                   "created/updated.">>,
                     changes |-> [old |-> current_policy, new |-> rules]])]

\* current_role: EmptyDict stands for the None that replaces an
\* InvalidRequest from vault.get_ec2_role.  policies is "None" or a policy
\* list; `policies or ['default']`.
ec2_role_created(role, policies, test, current_role) ==
    LET ret == [name |-> role, comment |-> <<>>, result |-> "False",
                changes |-> EmptyDict]
        c0 == <<Call("vault.get_ec2_role", <<role>>, current_role)>>
        wanted == IF policies = "None" THEN "default" ELSE policies
        found == IF "data" \in DOMAIN current_role
                    /\ ~current_role["data"].isNone
                 THEN current_role["data"].policies ELSE "None"
    IN
    \* {'data': None}: None has no .get
    IF "data" \in DOMAIN current_role /\ current_role["data"].isNone
    THEN [raised |-> "AttributeError", calls |-> c0, ret |-> EmptyDict]
    ELSE IF current_role # EmptyDict /\ found = wanted
    THEN [raised |-> "", calls |-> c0,
          ret |-> DictUpdate(ret,
                    [result |-> "True",
                     comment |-> <<"The ", role, " role already exists">>])]
    ELSE IF test
    THEN IF current_role # EmptyDict
         THEN [raised |-> "", calls |-> c0,
               ret |-> DictUpdate(ret,
                         [result |-> "None",
                          comment |-> <<"The ", role, " role will be updated ",
                                        "with the given policies">>,
                          changes |-> [old |-> current_role]])]
         ELSE [raised |-> "", calls |-> c0,
               ret |-> DictUpdate(ret,
                         [result |-> "None",
                          comment |-> <<"The {0} role will be created">>])]
    \* the arguments of vault.create_ec2_role name an undefined `kwargs`:
    \* NameError before the call is made
    ELSE [raised |-> "NameError", calls |-> c0, ret |-> EmptyDict]

(***************************************************************************)
(* _modules/testinframod.py                                                *)
(*                                                                         *)
(* A Python value is [t, v]: t its type ("bool", "int", "str"), v a        *)
(* number (False = 0, True = 1; a string is numbered in sort order).  An   *)
(* expectation dict is [t |-> "dict", match |-> value, comparison |-> c].  *)
(***************************************************************************)
PyVal(t, v) == [t |-> t, v |-> v]
PyTrue == PyVal("bool", 1)
PyFalse == PyVal("bool", 0)
Bools == {PyFalse, PyTrue}
PyValues == Bools \cup {PyVal("int", i) : i \in 0..MaxInt}
                  \cup {PyVal("str", i) : i \in 0..1}

IsNumber(x) == x.t \in {"bool", "int"}

\* == where the code has `is`
PyIs_as_eq(a, b) ==
    IF IsNumber(a) /\ IsNumber(b) THEN a.v = b.v
    ELSE a.t = b.t /\ a.v = b.v

\* a is b, for a bool b: the same singleton
PyIs(a, b) == a.t = b.t /\ a.v = b.v

\* a == b: bool is a subclass of int, so True == 1 and False == 0
PyEq(a, b) ==
    IF IsNumber(a) /\ IsNumber(b) THEN a.v = b.v
    ELSE a.t = b.t /\ a.v = b.v

\* a < b; ordering a number against a string raises TypeError (Python 3)
PyLt(a, b) == a.v < b.v
Orderable(a, b) == IsNumber(a) = IsNumber(b)

ComparisonKinds == {"lt", "le", "eq", "ne", "ge", "gt"}

\* the table with 'eq' bound to operator.le
comparisons_eq_as_le(kind, a, b) ==
    IF kind = "lt" THEN [raised |-> "", value |-> PyEq(a, b)]
    ELSE IF kind = "ne" THEN [raised |-> "", value |-> ~PyEq(a, b)]
    ELSE IF ~Orderable(a, b) THEN [raised |-> "TypeError", value |-> FALSE]
    ELSE IF kind \in {"le", "eq"}
    THEN [raised |-> "", value |-> PyLt(a, b) \/ PyEq(a, b)]
    ELSE IF kind = "ge"
    THEN [raised |-> "", value |-> ~PyLt(a, b)]
    ELSE [raised |-> "", value |-> ~PyLt(a, b) /\ ~PyEq(a, b)]

\* the module-level table `comparisons`, applied: comparisons[kind](a, b)
comparisons(kind, a, b) ==
    IF kind = "lt" THEN [raised |-> "", value |-> PyEq(a, b)]
    ELSE IF kind = "eq" THEN [raised |-> "", value |-> PyEq(a, b)]
    ELSE IF kind = "ne" THEN [raised |-> "", value |-> ~PyEq(a, b)]
    ELSE IF ~Orderable(a, b) THEN [raised |-> "TypeError", value |-> FALSE]
    ELSE IF kind = "le"
    THEN [raised |-> "", value |-> PyLt(a, b) \/ PyEq(a, b)]
    ELSE IF kind = "ge"
    THEN [raised |-> "", value |-> ~PyLt(a, b)]
    ELSE [raised |-> "", value |-> ~PyLt(a, b) /\ ~PyEq(a, b)]

\* the function with a False for an expectation of any other type
_apply_assertion_lenient(expected, result) ==
    IF expected.t = "bool"
    THEN [raised |-> "", value |-> PyIs(result, expected)]
    ELSE IF expected.t = "dict"
    THEN IF expected.match.t = "bool"
         THEN [raised |-> "", value |-> PyIs(result, expected.match)]
         ELSE IF expected.comparison \notin ComparisonKinds
         THEN [raised |-> "KeyError", value |-> FALSE]
         ELSE comparisons(expected.comparison, result, expected.match)
    ELSE [raised |-> "", value |-> FALSE]

_apply_assertion(expected, result) ==
    IF expected.t = "bool"
    THEN [raised |-> "", value |-> PyIs(result, expected)]
    ELSE IF expected.t = "dict"
    THEN IF expected.match.t = "bool"
         THEN [raised |-> "", value |-> PyIs(result, expected.match)]
         ELSE IF expected.comparison \notin ComparisonKinds
         THEN [raised |-> "KeyError", value |-> FALSE]
         ELSE comparisons(expected.comparison, result, expected.match)
    ELSE [raised |-> "TypeError", value |-> FALSE]

ExpectDict(m, c) == [t |-> "dict", match |-> m, comparison |-> c]
\* an empty list, and None, as an expectation
OtherShapes == {PyVal("list", 0), PyVal("NoneType", 0)}
Expectations ==
    PyValues \cup OtherShapes
             \cup {ExpectDict(m, c) : m \in PyValues,
                                      c \in ComparisonKinds \cup {"between"}}

\* A string is the sequence of its characters, over a small alphabet.
MaxLen == 4
LowerCase == {"a", "b"}
UpperCase == {"A", "B"}
Chars == LowerCase \cup UpperCase \cup {"_"}
\* str.lower() and str.upper() of one character
lower(c) == IF c = "A" THEN "a" ELSE IF c = "B" THEN "b" ELSE c
upper(c) == IF c = "a" THEN "A" ELSE IF c = "b" THEN "B" ELSE c

\* s.lower()
str_lower(s) == [i \in DOMAIN s |-> lower(s[i])]

\* s.strip('_')
RECURSIVE strip_underscores(_)
strip_underscores(s) ==
    IF s = <<>> THEN s
    ELSE IF Head(s) = "_" THEN strip_underscores(Tail(s))
    ELSE IF s[Len(s)] = "_" THEN strip_underscores(SubSeq(s, 1, Len(s) - 1))
    ELSE s

\* re.sub('(^|[a-z])([A-Z])', '_' + group(2).lower(), s), from position i:
\* the match takes the lower-case letter of group 1 with it
RECURSIVE snake_sub(_, _)
snake_sub(s, i) ==
    IF i > Len(s) THEN <<>>
    ELSE IF i = 1 /\ s[1] \in UpperCase
    THEN <<"_", lower(s[1])>> \o snake_sub(s, 2)
    ELSE IF i < Len(s) /\ s[i] \in LowerCase /\ s[i + 1] \in UpperCase
    THEN <<"_", lower(s[i + 1])>> \o snake_sub(s, i + 2)
    ELSE <<s[i]>> \o snake_sub(s, i + 1)

_to_snake_case(pascal_case) == strip_underscores(str_lower(snake_sub(pascal_case, 1)))

\* re.sub('_', ' ', s)
space_case(s) == [i \in DOMAIN s |-> IF s[i] = "_" THEN " " ELSE s[i]]

\* the end of the run of whitespace that starts at position i
RECURSIVE spaces_end(_, _)
spaces_end(s, i) ==
    IF i <= Len(s) /\ s[i] = " " THEN spaces_end(s, i + 1) ELSE i

\* re.sub('(^|\s+)([a-z])', group(2).upper(), s), from position i: only
\* whitespace that a lower-case letter follows is matched
RECURSIVE pascal_sub(_, _)
pascal_sub(s, i) ==
    IF i > Len(s) THEN <<>>
    ELSE IF i = 1 /\ s[1] \in LowerCase
    THEN <<upper(s[1])>> \o pascal_sub(s, 2)
    ELSE LET j == spaces_end(s, i)
         IN  IF j > i /\ j <= Len(s) /\ s[j] \in LowerCase
             THEN <<upper(s[j])>> \o pascal_sub(s, j + 1)
             ELSE <<s[i]>> \o pascal_sub(s, i + 1)

_to_pascal_case(snake_case) == pascal_sub(space_case(snake_case), 1)

\* getattr(module, method_name): a property, a function taking one
\* argument, or no such attribute
AttrKinds == {"property", "method", "missing"}
\* method_arg: None (the default), or a dict with or without 'parameter'
NoArg == [t |-> "NoneType", keys |-> {}]
ArgDict(keys) == [t |-> "dict", keys |-> keys]
MethodArgs == {NoArg} \cup {ArgDict(k) : k \in SUBSET {"parameter", "other"}}

\* _get_method_result, for a capability that gives `value` when probed
_get_method_result(attr, method_arg, value) ==
    IF attr = "missing"
    THEN [raised |-> "AttributeError", value |-> PyFalse]
    ELSE IF attr = "property"
    THEN [raised |-> "", value |-> value]
    \* None['parameter'] is a TypeError, which the handler does not catch
    ELSE IF method_arg.t # "dict"
    THEN [raised |-> "TypeError", value |-> PyFalse]
    \* the KeyError is logged and `return result` finds result unbound
    ELSE IF "parameter" \notin method_arg.keys
    THEN [raised |-> "UnboundLocalError", value |-> PyFalse]
    ELSE [raised |-> "", value |-> value]

\* run_tests(name, **methods).  The declared methods are a sequence in the
\* order methods.items() gives them; one is [attr, arg, parameter, value]:
\* the kind of attribute its name is, the expectation declared for it,
\* whether the declaration carries a 'parameter' key, and what the
\* capability gives when probed.
MaxMethods == 2
RunExpectations ==
    Bools \cup {ExpectDict(PyVal("int", 1), c) : c \in {"eq", "ge"}}
Declared(attr, arg, parameter, value) ==
    [attr |-> attr, arg |-> arg, parameter |-> parameter, value |-> value]
Declarations ==
    {Declared(a, e, p, v) : a \in AttrKinds, e \in RunExpectations,
                            p \in BOOLEAN, v \in PyValues}

\* the loop over methods.items(): the probe is called without method_arg
RECURSIVE run_tests_loop(_, _, _)
run_tests_loop(R, methods, i) ==
    IF i > Len(methods) \/ R.raised # "" THEN R
    ELSE LET m == methods[i]
             result == _get_method_result(m.attr, NoArg, m.value)
             assertion_result == _apply_assertion(m.arg, result.value)
         IN  IF result.raised # "" THEN [R EXCEPT !.raised = result.raised]
             ELSE IF assertion_result.raised # ""
             THEN [R EXCEPT !.raised = assertion_result.raised]
             ELSE IF ~assertion_result.value
             THEN run_tests_loop(
                      [R EXCEPT !.success = FALSE,
                                !.msgs = Append(@, "Assertion failed")],
                      methods, i + 1)
             ELSE run_tests_loop(
                      [R EXCEPT !.msgs = Append(@, "Assertion passed")],
                      methods, i + 1)

\* run_tests: [raised, success, msgs]
run_tests(supported, methods) ==
    \* the handler of NotImplementedError formats the undefined module_name
    IF ~supported THEN [raised |-> "NameError", success |-> TRUE, msgs |-> <<>>]
    ELSE run_tests_loop([raised |-> "", success |-> TRUE, msgs |-> <<>>],
                        methods, 1)

(***************************************************************************)
(* _beacons/http_status.py                                                 *)
(*                                                                         *)
(* config['sites'] is a sequence of sites in iteration order, the i-th     *)
(* with url URLs[i].  A site is [resp, json_response, html_response]; resp *)
(* is what requests.get gives for its url.  A body is JSON holding a       *)
(* number, or nothing, at the item path, or it is text that the pattern    *)
(* matches or not.                                                         *)
(***************************************************************************)
MaxSites == 2
URLs == <<"url1", "url2", "url3">>
ItemPath == "status"
Pattern == "foo"

BeaconComparisons == {"==", "<", ">", "<=", ">=", "!=", "search"}

JsonBody(has, v) == [json |-> TRUE, has |-> has, v |-> v]
TextBody(matches) == [json |-> FALSE, has |-> matches, v |-> 0]
Bodies == {JsonBody(TRUE, i) : i \in 0..MaxInt} \cup {JsonBody(FALSE, 0)}
            \cup {TextBody(m) : m \in BOOLEAN}
StatusCodes == {200, 500}

\* requests.get raised requests.exceptions.RequestException
RequestException == [ok |-> FALSE, status_code |-> 0, body |-> TextBody(FALSE)]
Response(status_code, body) ==
    [ok |-> TRUE, status_code |-> status_code, body |-> body]
Responses ==
    {RequestException} \cup {Response(s, b) : s \in StatusCodes, b \in Bodies}

JsonItem(value, comp) == [path |-> ItemPath, value |-> value, comp |-> comp]
HtmlItem(comp) == [path |-> "", value |-> Pattern, comp |-> comp]
JsonItems == {<<>>} \cup {<<JsonItem(1, c)>> : c \in BeaconComparisons \cup {"between"}}
HtmlItems == {<<>>} \cup {<<HtmlItem(c)>> : c \in {"search", "between"}}

Site(resp, json_response, html_response) ==
    [resp |-> resp, json_response |-> json_response,
     html_response |-> html_response]
Sites == {Site(r, j, h) : r \in Responses, j \in JsonItems, h \in HtmlItems}
ConfigsOfLen(n) == [1..n -> Sites]

\* the module-level table `comparisons`, applied to two numbers:
\* comparisons[kind](a, b); re.search takes no number as its pattern
beacon_comparisons(kind, a, b) ==
    CASE kind = "==" -> [raised |-> "", value |-> a = b]
      [] kind = "<" -> [raised |-> "", value |-> a < b]
      [] kind = ">" -> [raised |-> "", value |-> a > b]
      [] kind = "<=" -> [raised |-> "", value |-> a <= b]
      [] kind = ">=" -> [raised |-> "", value |-> a >= b]
      [] kind = "!=" -> [raised |-> "", value |-> a # b]
      [] kind = "search" -> [raised |-> "TypeError", value |-> FALSE]

\* re.search(pattern, r.text)
search(pattern, body) == ~body.json /\ body.has

\* The locals of beacon(): r and expected_value are unbound until first
\* assigned; log notes, per site, the request, each comparison made and
\* each event appended.
BeaconLocals ==
    [r_bound |-> FALSE, r |-> RequestException, ev_bound |-> FALSE,
     expected_value |-> 0, ret |-> <<>>, log |-> <<>>, raised |-> ""]

Note(url, op) == [url |-> url, op |-> op]

\* ret.append(event)
RetAppend(L, url, event) ==
    [L EXCEPT !.ret = Append(@, event),
              !.log = Append(@, Note(url, "append"))]

\* the loop over sites_config.get('json_response', [])
RECURSIVE json_response_loop(_, _, _, _)
json_response_loop(L, url, items, i) ==
    IF i > Len(items) \/ L.raised # "" THEN L
    ELSE LET item == items[i] IN
    IF item.comp \in BeaconComparisons
    THEN LET L1 == [L EXCEPT !.ev_bound = TRUE,
                             !.expected_value = item.value]
         IN  \* r.json() of a body that is not JSON raises ValueError
             IF ~L.r.body.json THEN [L1 EXCEPT !.raised = "ValueError"]
             \* received_value is None: continue
             ELSE IF ~L.r.body.has
             THEN json_response_loop(L1, url, items, i + 1)
             ELSE LET received_value == L.r.body.v
                      c == beacon_comparisons(item.comp, item.value,
                                              received_value)
                      L2 == [L1 EXCEPT !.log = Append(@, Note(url, "json"))]
                  IN  IF c.raised # "" THEN [L2 EXCEPT !.raised = c.raised]
                      ELSE IF ~c.value
                      THEN json_response_loop(
                               RetAppend(L2, url,
                                   [expected |-> item.value,
                                    received |-> received_value,
                                    url |-> url, path |-> item.path]),
                               url, items, i + 1)
                      ELSE json_response_loop(L2, url, items, i + 1)
    \* the else branch logs expected_value, bound only by an earlier item
    ELSE IF ~L.ev_bound THEN [L EXCEPT !.raised = "UnboundLocalError"]
    ELSE json_response_loop(L, url, items, i + 1)

\* the loop over sites_config.get('html_response', [])
RECURSIVE html_response_loop(_, _, _, _)
html_response_loop(L, url, items, i) ==
    IF i > Len(items) \/ L.raised # "" THEN L
    ELSE LET item == items[i] IN
    IF item.comp \notin BeaconComparisons
    THEN [L EXCEPT !.raised = "KeyError"]
    ELSE LET L1 == [L EXCEPT !.log = Append(@, Note(url, "html"))]
         IN  IF ~search(item.value, L.r.body)
             THEN html_response_loop(
                      RetAppend(L1, url, [keyword |-> item.value]),
                      url, items, i + 1)
             ELSE html_response_loop(L1, url, items, i + 1)

\* one pass of the loop over the sites
beacon_site(L, url, site) ==
    LET L0 == [L EXCEPT !.log = Append(@, Note(url, "get"))] IN
    IF ~site.resp.ok
    THEN \* the handler reads r, bound only by an earlier site's response
         IF ~L.r_bound THEN [L0 EXCEPT !.raised = "UnboundLocalError"]
         \* r.raise_for_status is a bound method, which is true
         ELSE RetAppend(L0, url, [status_code |-> L.r.status_code])
    ELSE LET L1 == [L0 EXCEPT !.r_bound = TRUE, !.r = site.resp]
             L2 == json_response_loop(L1, url, site.json_response, 1)
         IN  html_response_loop(L2, url, site.html_response, 1)

RECURSIVE beacon_sites(_, _, _)
beacon_sites(L, sites, i) ==
    IF i > Len(sites) \/ L.raised # "" THEN L
    ELSE beacon_sites(beacon_site(L, URLs[i], sites[i]), sites, i + 1)

\* beacon(config): [raised, ret, log]
beacon(sites) ==
    LET L == beacon_sites(BeaconLocals, sites, 1)
    IN  [raised |-> L.raised, ret |-> L.ret, log |-> L.log]

(***************************************************************************)
(* State                                                                   *)
(***************************************************************************)
VARIABLES
    loaded,                  \* the state module this minion's run uses
    aws,                     \* the CloudFront distribution held by AWS
    cache,                   \* _cache_id entry of boto_cloudfront for the name
    heroku,                  \* the app's config vars held by Heroku
    diff_heroku_pillar_dict, \* module globals of _states/heroku.py
    heroku_diff_dict,
    pillar_diff_dict,
    last,                    \* the last call: inputs, collaborator calls, return
    tst,                     \* testinframod: inputs and outcome of an assertion
    bcn,                     \* http_status: config and outcome of a beacon() call
    probe,                   \* testinframod: inputs and outcome of a probe
    run,                     \* testinframod: inputs and outcome of run_tests
    conv,                    \* testinframod: input and outcome of a case conversion
    mcall                    \* boto_cloudfront: the last direct call of a module function

vars == <<loaded, aws, cache, heroku, diff_heroku_pillar_dict,
          heroku_diff_dict, pillar_diff_dict, last, tst, bcn,
          probe, run, conv, mcall>>

G == [flags |-> diff_heroku_pillar_dict, hdiff |-> heroku_diff_dict,
      pdiff |-> pillar_diff_dict]

StateModules == {"boto_cloudfront", "heroku", "vault"}

NoCall == [fn |-> "", test |-> FALSE, args |-> <<>>, calls |-> <<>>,
           raised |-> "", ret |-> EmptyDict]
IdleTst == [phase |-> "idle", expected |-> PyTrue, result |-> PyTrue,
            out |-> [raised |-> "", value |-> FALSE]]
NoBeaconOut == [raised |-> "", ret |-> <<>>, log |-> <<>>]
IdleBcn == [phase |-> "idle", config |-> <<>>, out |-> NoBeaconOut]
IdleProbe == [phase |-> "idle", attr |-> "property", method_arg |-> NoArg,
              value |-> PyTrue, out |-> [raised |-> "", value |-> PyFalse]]
NoRunOut == [raised |-> "", success |-> TRUE, msgs |-> <<>>]
IdleRun == [phase |-> "idle", supported |-> TRUE, methods |-> <<>>,
            out |-> NoRunOut]
IdleConv == [phase |-> "idle", fn |-> "", input |-> <<>>, out |-> <<>>]
NoModCall == [fn |-> "", args |-> <<>>, r |-> EmptyDict, raised |-> "", api |-> <<>>]

\* what a call leaves in `last`
Record(fn, test, args, out) ==
    [fn |-> fn, test |-> test, args |-> args, calls |-> out.calls,
     raised |-> out.raised, ret |-> out.ret]

\* A fresh minion process: the module globals have their import-time
\* values, the cache is empty; the external systems hold anything.
\* The three state modules share no variable and talk to different
\* services, so a behaviour follows the calls into one of them: `loaded`
\* is the module whose functions the run calls.
Init ==
    /\ loaded \in StateModules
    /\ aws \in (IF loaded = "boto_cloudfront" THEN Dists ELSE {NoneDist})
    /\ cache = NoneDist
    /\ heroku \in (IF loaded = "heroku" THEN ConfigVars ELSE {EmptyDict})
    /\ diff_heroku_pillar_dict = InitialFlags
    /\ heroku_diff_dict = EmptyDict
    /\ pillar_diff_dict = EmptyDict
    /\ last = NoCall
    /\ tst = IdleTst
    /\ bcn = IdleBcn
    /\ probe = IdleProbe
    /\ run = IdleRun
    /\ conv = IdleConv
    /\ mcall = NoModCall

herokuVars == <<heroku, diff_heroku_pillar_dict, heroku_diff_dict,
                pillar_diff_dict>>

Present ==
    /\ loaded = "boto_cloudfront"
    /\ \E config \in Configs, tags \in Tags, test \in BOOLEAN,
          listFails \in BOOLEAN, failAt \in 0..3 :
        LET out == present(DistName, config, tags, test, aws, cache,
                           listFails, failAt)
        IN  /\ aws' = out.aws
            /\ cache' = out.cache
            /\ last' = Record("boto_cloudfront.present", test,
                              <<DistName, config, tags>>, out)
    /\ UNCHANGED <<loaded, herokuVars, tst, bcn, probe, run, conv, mcall>>

UpdateAppConfigVars ==
    /\ loaded = "heroku"
    /\ \E config_vars \in ConfigVars, test \in BOOLEAN,
          fetchFails \in BOOLEAN, applyFails \in BOOLEAN,
          refetchFails \in BOOLEAN :
        LET out == update_app_config_vars(AppName, config_vars, test, heroku,
                                          G, fetchFails, applyFails,
                                          refetchFails)
        IN  /\ heroku' = out.heroku
            /\ diff_heroku_pillar_dict' = out.G.flags
            /\ heroku_diff_dict' = out.G.hdiff
            /\ pillar_diff_dict' = out.G.pdiff
            /\ last' = Record("heroku.update_app_config_vars", test,
                              <<AppName, config_vars>>, out)
    /\ UNCHANGED <<loaded, aws, cache, tst, bcn, probe, run, conv, mcall>>

OverrideAppConfigVars ==
    /\ loaded = "heroku"
    /\ \E config_vars \in ConfigVars, test \in BOOLEAN,
          fetchFails \in BOOLEAN, failAt \in 0..2 :
        LET out == override_app_config_vars(AppName, config_vars, test,
                                            heroku, fetchFails, failAt)
        IN  /\ heroku' = out.heroku
            /\ last' = Record("heroku.override_app_config_vars", test,
                              <<AppName, config_vars>>, out)
    /\ UNCHANGED <<loaded, aws, cache, diff_heroku_pillar_dict,
                   heroku_diff_dict, pillar_diff_dict, tst, bcn, probe, run, conv, mcall>>

\* The vault state functions change nothing the model holds but `last`.
VaultCall(fn, test, args, out) ==
    /\ loaded = "vault"
    /\ last' = Record(fn, test, args, out)
    /\ UNCHANGED <<loaded, aws, cache, herokuVars, tst, bcn, probe, run, conv, mcall>>

Initialized ==
    \E test \in BOOLEAN, is_initialized \in BOOLEAN,
       outcome \in VaultOutcomes :
        VaultCall("vault.initialized", test, <<VaultName>>,
                  initialized(VaultName, test, is_initialized, outcome))

MountPoints == BackendTypes \cup {"None"}

AuthBackendEnabled ==
    \E backend_type \in BackendTypes \cup {""}, mount_point \in MountPoints,
       test \in BOOLEAN, backends \in Backends, fails \in BOOLEAN :
        VaultCall("vault.auth_backend_enabled", test,
                  <<backend_type, mount_point>>,
                  auth_backend_enabled(VaultName, backend_type, mount_point,
                                       test, backends, fails))

AuditBackendEnabled ==
    \E backend_type \in BackendTypes \cup {""}, mount_point \in MountPoints,
       test \in BOOLEAN, backends \in Backends, fails \in BOOLEAN :
        VaultCall("vault.audit_backend_enabled", test,
                  <<backend_type, mount_point>>,
                  audit_backend_enabled(VaultName, backend_type, mount_point,
                                        test, backends, fails))

AppIdCreated ==
    \E policies \in Policies, test \in BOOLEAN, current_id \in VaultReads,
       fails \in BOOLEAN :
        VaultCall("vault.app_id_created", test, <<VaultName, policies>>,
                  app_id_created(VaultName, policies, test, current_id, fails))

PolicyCreated ==
    \E rules \in Rules, test \in BOOLEAN,
       current_policy \in Rules \cup {"None"}, fails \in BOOLEAN :
        VaultCall("vault.policy_created", test, <<VaultName, rules>>,
                  policy_created(VaultName, rules, test, current_policy,
                                 fails))

Ec2RoleCreated ==
    \E policies \in {"None", "default"} \cup Policies, test \in BOOLEAN,
       current_role \in VaultReads \cup {[data |-> Data("default")]} :
        VaultCall("vault.ec2_role_created", test, <<VaultName, policies>>,
                  ec2_role_created(VaultName, policies, test, current_role))

Next ==
    \/ Present
    \/ UpdateAppConfigVars
    \/ OverrideAppConfigVars
    \/ Initialized
    \/ AuthBackendEnabled
    \/ AuditBackendEnabled
    \/ AppIdCreated
    \/ PolicyCreated
    \/ Ec2RoleCreated

Spec == Init /\ [][Next]_vars

(***************************************************************************)
(* The assertion engine on its own: the inputs of one _apply_assertion     *)
(* call are drawn in the initial state, the action applies the function.   *)
(***************************************************************************)
InitAssert ==
    /\ loaded = "testinfra"
    /\ aws = NoneDist
    /\ cache = NoneDist
    /\ heroku = EmptyDict
    /\ diff_heroku_pillar_dict = InitialFlags
    /\ heroku_diff_dict = EmptyDict
    /\ pillar_diff_dict = EmptyDict
    /\ last = NoCall
    /\ tst \in {[phase |-> "input", expected |-> e, result |-> o,
                 out |-> [raised |-> "", value |-> FALSE]] :
                   e \in Expectations, o \in PyValues}
    /\ bcn = IdleBcn
    /\ probe = IdleProbe
    /\ run = IdleRun
    /\ conv = IdleConv
    /\ mcall = NoModCall

ApplyAssertion ==
    /\ loaded = "testinfra"
    /\ tst.phase = "input"
    /\ tst' = [tst EXCEPT !.phase = "done",
                          !.out = _apply_assertion(tst.expected, tst.result)]
    /\ UNCHANGED <<loaded, aws, cache, herokuVars, last, bcn, probe, run, conv, mcall>>

NextAssert == ApplyAssertion

SpecAssert == InitAssert /\ [][NextAssert]_vars

(***************************************************************************)
(* The beacon on its own: the config of one beacon() call and what each    *)
(* site's request gives are drawn in the initial state, the action runs    *)
(* the function.                                                           *)
(***************************************************************************)
InitBeacon ==
    /\ loaded = "http_status"
    /\ aws = NoneDist
    /\ cache = NoneDist
    /\ heroku = EmptyDict
    /\ diff_heroku_pillar_dict = InitialFlags
    /\ heroku_diff_dict = EmptyDict
    /\ pillar_diff_dict = EmptyDict
    /\ last = NoCall
    /\ tst = IdleTst
    /\ \E n \in 0..MaxSites : \E c \in ConfigsOfLen(n) :
          bcn = [phase |-> "input", config |-> c, out |-> NoBeaconOut]
    /\ probe = IdleProbe
    /\ run = IdleRun
    /\ conv = IdleConv
    /\ mcall = NoModCall

Beacon ==
    /\ loaded = "http_status"
    /\ bcn.phase = "input"
    /\ bcn' = [bcn EXCEPT !.phase = "done", !.out = beacon(bcn.config)]
    /\ UNCHANGED <<loaded, aws, cache, herokuVars, last, tst, probe, run, conv, mcall>>

NextBeacon == Beacon

SpecBeacon == InitBeacon /\ [][NextBeacon]_vars

(***************************************************************************)
(* The probe of a capability on its own: the attribute, the argument and   *)
(* what the capability gives are drawn in the initial state, the action    *)
(* applies _get_method_result.                                             *)
(***************************************************************************)
InitProbe ==
    /\ loaded = "testinfra"
    /\ aws = NoneDist
    /\ cache = NoneDist
    /\ heroku = EmptyDict
    /\ diff_heroku_pillar_dict = InitialFlags
    /\ heroku_diff_dict = EmptyDict
    /\ pillar_diff_dict = EmptyDict
    /\ last = NoCall
    /\ tst = IdleTst
    /\ bcn = IdleBcn
    /\ \E attr \in AttrKinds, method_arg \in MethodArgs, value \in PyValues :
          probe = [phase |-> "input", attr |-> attr,
                   method_arg |-> method_arg, value |-> value,
                   out |-> [raised |-> "", value |-> PyFalse]]
    /\ run = IdleRun
    /\ conv = IdleConv
    /\ mcall = NoModCall

GetMethodResult ==
    /\ loaded = "testinfra"
    /\ probe.phase = "input"
    /\ probe' = [probe EXCEPT
                   !.phase = "done",
                   !.out = _get_method_result(probe.attr, probe.method_arg,
                                              probe.value)]
    /\ UNCHANGED <<loaded, aws, cache, herokuVars, last, tst, bcn, run, conv, mcall>>

NextProbe == GetMethodResult

SpecProbe == InitProbe /\ [][NextProbe]_vars

(***************************************************************************)
(* run_tests on its own: the declared methods, and whether the platform    *)
(* supports the module, are drawn in the initial state, the action runs    *)
(* the function.                                                           *)
(***************************************************************************)
InitRunTests ==
    /\ loaded = "testinfra"
    /\ aws = NoneDist
    /\ cache = NoneDist
    /\ heroku = EmptyDict
    /\ diff_heroku_pillar_dict = InitialFlags
    /\ heroku_diff_dict = EmptyDict
    /\ pillar_diff_dict = EmptyDict
    /\ last = NoCall
    /\ tst = IdleTst
    /\ bcn = IdleBcn
    /\ probe = IdleProbe
    /\ \E supported \in BOOLEAN, n \in 0..MaxMethods :
          \E methods \in [1..n -> Declarations] :
             run = [phase |-> "input", supported |-> supported,
                    methods |-> methods, out |-> NoRunOut]
    /\ conv = IdleConv
    /\ mcall = NoModCall

RunTests ==
    /\ loaded = "testinfra"
    /\ run.phase = "input"
    /\ run' = [run EXCEPT !.phase = "done",
                          !.out = run_tests(run.supported, run.methods)]
    /\ UNCHANGED <<loaded, aws, cache, herokuVars, last, tst, bcn, probe, conv, mcall>>

NextRunTests == RunTests

SpecRunTests == InitRunTests /\ [][NextRunTests]_vars

(***************************************************************************)
(* The case conversions on their own: the identifier is drawn in the       *)
(* initial state, an action applies one of the two functions.              *)
(***************************************************************************)
InitCase ==
    /\ loaded = "testinfra"
    /\ aws = NoneDist
    /\ cache = NoneDist
    /\ heroku = EmptyDict
    /\ diff_heroku_pillar_dict = InitialFlags
    /\ heroku_diff_dict = EmptyDict
    /\ pillar_diff_dict = EmptyDict
    /\ last = NoCall
    /\ tst = IdleTst
    /\ bcn = IdleBcn
    /\ probe = IdleProbe
    /\ run = IdleRun
    /\ \E n \in 0..MaxLen : \E s \in [1..n -> Chars] :
          conv = [phase |-> "input", fn |-> "", input |-> s, out |-> <<>>]
    /\ mcall = NoModCall

ToSnakeCase ==
    /\ loaded = "testinfra"
    /\ conv.phase = "input"
    /\ conv' = [conv EXCEPT !.phase = "done", !.fn = "_to_snake_case",
                            !.out = _to_snake_case(conv.input)]
    /\ UNCHANGED <<loaded, aws, cache, herokuVars, last, tst, bcn, probe, run, mcall>>

ToPascalCase ==
    /\ loaded = "testinfra"
    /\ conv.phase = "input"
    /\ conv' = [conv EXCEPT !.phase = "done", !.fn = "_to_pascal_case",
                            !.out = _to_pascal_case(conv.input)]
    /\ UNCHANGED <<loaded, aws, cache, herokuVars, last, tst, bcn, probe, run, mcall>>

NextCase == ToSnakeCase \/ ToPascalCase

SpecCase == InitCase /\ [][NextCase]_vars

(***************************************************************************)
(* The functions of _modules/boto_cloudfront.py called directly, as the    *)
(* salt command line does.  The cache entry outlives each call; AWS may    *)
(* lose the distribution between two calls, which the cache does not see.  *)
(***************************************************************************)
InitCloudfront ==
    /\ loaded = "boto_cloudfront"
    /\ aws \in Dists
    /\ cache = NoneDist
    /\ heroku = EmptyDict
    /\ diff_heroku_pillar_dict = InitialFlags
    /\ heroku_diff_dict = EmptyDict
    /\ pillar_diff_dict = EmptyDict
    /\ last = NoCall
    /\ tst = IdleTst
    /\ bcn = IdleBcn
    /\ probe = IdleProbe
    /\ run = IdleRun
    /\ conv = IdleConv
    /\ mcall = NoModCall

ModCall(fn, args, out) == [fn |-> fn, args |-> args, r |-> out.r, raised |-> out.raised, api |-> out.api]

GetDistribution ==
    /\ \E listFails \in BOOLEAN :
        LET g == get_distribution(aws, cache, listFails)
        IN  /\ cache' = g.cache
            /\ mcall' = ModCall("get_distribution", <<DistName>>,
                                [r |-> g.r, raised |-> "", api |-> <<>>])
    /\ UNCHANGED <<loaded, aws, herokuVars, last, tst, bcn, probe, run, conv>>

\* tags that carry a Name other than the name argument
MisnamedTags == [Name |-> "other"]

\* AWS holds no distribution of this name when one is created
CreateDistribution ==
    /\ ~aws.exists
    /\ \E config \in Configs, tags \in Tags \cup {MisnamedTags},
          apiFails \in BOOLEAN :
        LET c == create_distribution(DistName, config, tags, aws, cache,
                                     apiFails)
        IN  /\ aws' = c.aws
            /\ cache' = c.cache
            /\ mcall' = ModCall("create_distribution",
                                <<DistName, config, tags>>,
                                [r |-> c.r, raised |-> "", api |-> c.api])
    /\ UNCHANGED <<loaded, herokuVars, last, tst, bcn, probe, run, conv>>

\* A call on a distribution that AWS no longer holds (the cached object is
\* stale) is refused by AWS: the first boto3 call raises ClientError.
UpdateDistribution ==
    /\ \E config \in Configs, tags \in Tags, listFails \in BOOLEAN,
          failAt \in 0..3 :
        /\ (cache.exists /\ ~aws.exists) => failAt = 1
        /\ LET u == update_distribution(DistName, config, tags, aws, cache,
                                        listFails, failAt)
           IN  /\ aws' = u.aws
               /\ cache' = u.cache
               /\ mcall' = ModCall("update_distribution",
                                   <<DistName, config, tags>>, u)
    /\ UNCHANGED <<loaded, herokuVars, last, tst, bcn, probe, run, conv>>

\* the distribution is deleted in AWS, outside this module
DistributionDeleted ==
    /\ aws.exists
    /\ aws' = NoneDist
    /\ mcall' = NoModCall
    /\ UNCHANGED <<loaded, cache, herokuVars, last, tst, bcn, probe, run, conv>>

NextCloudfront ==
    \/ GetDistribution
    \/ CreateDistribution
    \/ UpdateDistribution
    \/ DistributionDeleted

SpecCloudfront == InitCloudfront /\ [][NextCloudfront]_vars

(***************************************************************************)
(* Properties of the state functions, read off the last call               *)
(***************************************************************************)
IsPresent == last.fn = "boto_cloudfront.present"
IsHerokuUpdate == last.fn = "heroku.update_app_config_vars"
IsConverge == IsPresent \/ IsHerokuUpdate
Returned == last.raised = ""

\* what the first call, the fetch of the observed state, returned
Fetched == last.calls[1].r
FetchOk == IF IsPresent THEN "result" \in DOMAIN Fetched ELSE Fetched.isdict
\* the fetch found no distribution
Absent == IsPresent /\ FetchOk /\ ~Fetched.result.exists
\* the observed state has no structural difference from the desired state
NoDifference ==
    /\ FetchOk
    /\ IF IsPresent
       THEN /\ Fetched.result.exists
            /\ Fetched.result.config = last.args[2]
            /\ Fetched.result.tags = last.args[3]
       ELSE Fetched.vars = last.args[2]
Differs == FetchOk /\ ~NoDifference

CallsTo(fns) == {i \in DOMAIN last.calls : last.calls[i].fn \in fns}
CreateFn == {"boto_cloudfront.create_distribution"}
UpdateFn == {"boto_cloudfront.update_distribution"}
ApplyFns == CreateFn \cup UpdateFn \cup {"heroku.update_app_config_vars"}
MutatingFns ==
    ApplyFns \cup {"vault.initialize", "vault.enable_auth_backend",
                   "vault.enable_audit_backend", "vault.create_app_id",
                   "vault.set_policy", "vault.create_ec2_role"}

\* the apply call at index i reported success / failure
ApplySucceeded(i) ==
    IF IsPresent THEN "result" \in DOMAIN last.calls[i].r
    ELSE last.calls[i].r = "True"
ApplyFailed(i) ==
    IF IsPresent THEN "error" \in DOMAIN last.calls[i].r
    ELSE IF IsHerokuUpdate THEN last.calls[i].r = "False"
    ELSE last.calls[i].r = "VaultError"

SuccessTexts == {"Created distribution ", "Updated distribution ",
                 " has been successfully mounted at ", " has correct config"}
ReportsFailure(comment) ==
    /\ comment # <<>>
    /\ \A i \in DOMAIN comment : comment[i] \notin SuccessTexts

\* C1: while __opts__['test'] is set, no state function makes a mutating
\* collaborator call, whatever it observed.
C1_DryRunNeverMutates == last.test => CallsTo(MutatingFns) = {}

\* a dry run of present that found a difference and returned the preview
C1_Witness ==
    /\ IsPresent /\ last.test /\ Returned /\ Differs
    /\ last.ret["result"] = "None"

\* C2: when the observed state equals the desired state, present and
\* update_app_config_vars return result True, changes {} and make no apply
\* call, on every invocation.
C2_NoOpOnEquality ==
    (IsConverge /\ NoDifference) =>
        /\ Returned
        /\ last.ret["result"] = "True"
        /\ DOMAIN last.ret["changes"] = {}
        /\ CallsTo(ApplyFns) = {}

\* C3: outside dry run and with a difference between observed and desired
\* state, the apply collaborator is called exactly once, with the desired
\* state, and when that call succeeds the function returns result True.
C3_ApplyExactlyOnce ==
    (IsConverge /\ ~last.test /\ Differs) =>
        /\ Cardinality(CallsTo(ApplyFns)) = 1
        /\ \A i \in CallsTo(ApplyFns) :
              /\ last.calls[i].args = last.args
              /\ ApplySucceeded(i) =>
                    (Returned /\ last.ret["result"] = "True")

\* update_app_config_vars applied a differing pillar and returned True
C3_Witness ==
    /\ IsHerokuUpdate /\ ~last.test /\ Differs /\ Returned
    /\ Cardinality(CallsTo(ApplyFns)) = 1
    /\ \E i \in CallsTo(ApplyFns) : ApplySucceeded(i)
    /\ last.ret["result"] = "True"

\* what C4 says of a call that found no distribution
CreationClassified ==
    /\ Cardinality(CallsTo(CreateFn)) = 1
    /\ CallsTo(UpdateFn) = {}
    /\ \A i \in CallsTo(CreateFn) :
          ApplySucceeded(i) =>
              /\ Returned
              /\ last.ret["changes"] = [old |-> "None", new |-> last.args[1]]

\* C4 as stated: whenever the fetch finds no distribution, present calls
\* create_distribution, never update_distribution, and on success returns
\* changes = {old: None, new: name}.
C4_CreationClassification == Absent => CreationClassified

\* C4, amended: outside dry run, when the fetch finds no distribution,
\* present calls create_distribution once, never update_distribution, and
\* on success returns changes = {old: None, new: name}; in a dry run it
\* calls neither.
C4_CreationOutsideDryRun ==
    Absent => IF last.test THEN CallsTo(ApplyFns) = {}
              ELSE CreationClassified

\* present created the missing distribution
C4_Witness ==
    /\ Absent /\ ~last.test /\ Returned
    /\ \E i \in CallsTo(CreateFn) : ApplySucceeded(i)
    /\ last.ret["changes"] = [old |-> "None", new |-> DistName]

\* C5: when the apply collaborator reports a failure, the returned record
\* has result False, a comment that reports the failure, and changes {}.
C5_ApplyFailureReported ==
    (/\ last.fn \in {"boto_cloudfront.present",
                     "heroku.update_app_config_vars",
                     "vault.auth_backend_enabled"}
     /\ \E i \in CallsTo(MutatingFns) : ApplyFailed(i)) =>
        /\ Returned
        /\ last.ret["result"] = "False"
        /\ ReportsFailure(last.ret["comment"])
        /\ DOMAIN last.ret["changes"] = {}

\* C6: when the fetch of the observed state fails, the function returns
\* result False and makes no apply call.
C6_FetchFailureContained ==
    (IsConverge /\ ~FetchOk) =>
        /\ Returned
        /\ last.ret["result"] = "False"
        /\ CallsTo(ApplyFns) = {}

\* C7: a dry run that finds a difference returns result None with the
\* difference in 'changes'; a dry run that finds none returns the no-op
\* success, result True and changes {}.
C7_DryRunPreviewRecord ==
    (IsConverge /\ last.test /\ FetchOk) =>
        /\ Returned
        /\ IF NoDifference
           THEN last.ret["result"] = "True" /\ DOMAIN last.ret["changes"] = {}
           ELSE last.ret["result"] = "None" /\ DOMAIN last.ret["changes"] # {}

\* C8: when nothing differs, present returns exactly the keys name, result,
\* comment, changes, and the comment is '<name> has correct config'.
C8_NoOpComment ==
    (IsPresent /\ NoDifference) =>
        /\ Returned
        /\ DOMAIN last.ret = {"name", "result", "comment", "changes"}
        /\ last.ret["comment"] = <<"Distribution ", last.args[1],
                                   " has correct config">>

(***************************************************************************)
(* Properties of _apply_assertion                                          *)
(***************************************************************************)
Applied == tst.phase = "done"

\* C9 as stated: a boolean expectation e passes against o exactly when
\* o == e.
C9_BooleanExpectation ==
    (Applied /\ tst.expected.t = "bool") =>
        /\ tst.out.raised = ""
        /\ tst.out.value = PyEq(tst.result, tst.expected)

\* C9, amended: a boolean expectation e passes against o exactly when o is
\* itself a boolean and o == e; an observed 1 or 0 does not pass.
C9_BooleanIdentity ==
    (Applied /\ tst.expected.t = "bool") =>
        /\ tst.out.raised = ""
        /\ tst.out.value = (tst.result \in Bools
                            /\ PyEq(tst.result, tst.expected))

\* the expectation True evaluated against the observed number 1
C9_Witness ==
    /\ Applied /\ tst.expected = PyTrue /\ tst.result = PyVal("int", 1)
    /\ ~tst.out.value

\* C10: an expectation {match: v, comparison: 'eq'} with v a string or a
\* number passes against o exactly when o == v.
C10_StructuredEquality ==
    (/\ Applied /\ tst.expected.t = "dict"
     /\ tst.expected.comparison = "eq"
     /\ tst.expected.match.t \in {"int", "str"}) =>
        /\ tst.out.raised = ""
        /\ tst.out.value = PyEq(tst.result, tst.expected.match)

\* {match: 1, comparison: 'eq'} passed against the observed number 1
C10_Witness ==
    /\ Applied /\ tst.expected = ExpectDict(PyVal("int", 1), "eq")
    /\ tst.result = PyVal("int", 1)
    /\ tst.out.value

\* the relation `o k v` between two numbers that the kind k names
Relation(k, o, v) ==
    CASE k = "eq" -> o = v
      [] k = "ne" -> o # v
      [] k = "lt" -> o < v
      [] k = "le" -> o <= v
      [] k = "gt" -> o > v
      [] k = "ge" -> o >= v

\* C11: for k in {ne, lt, le, gt, ge} and numbers o, v, the expectation
\* {match: v, comparison: k} passes against o exactly when `o k v` holds.
C11_OrderingComparisons ==
    (/\ Applied /\ tst.expected.t = "dict"
     /\ tst.expected.comparison \in {"ne", "lt", "le", "gt", "ge"}
     /\ tst.expected.match.t = "int" /\ tst.result.t = "int") =>
        /\ tst.out.raised = ""
        /\ tst.out.value = Relation(tst.expected.comparison, tst.result.v,
                                    tst.expected.match.v)

(***************************************************************************)
(* Properties of beacon                                                    *)
(***************************************************************************)
BeaconDone == bcn.phase = "done"
SiteIndexes == DOMAIN bcn.config
\* the items of a site, json_response first, as the loops take them
ItemsOf(site) == site.json_response \o site.html_response
HasUnknownKind(site) ==
    \E i \in DOMAIN ItemsOf(site) : ItemsOf(site)[i].comp \notin BeaconComparisons

\* C12: an item whose comparison kind is not in the table ends the
\* beacon() call in an error, whatever was evaluated before it.
C12_UnknownKindIsError ==
    (/\ BeaconDone
     /\ \E s \in SiteIndexes :
           bcn.config[s].resp.ok /\ HasUnknownKind(bcn.config[s])) =>
        bcn.out.raised # ""

\* C13: an expectation that is neither a boolean nor a dict makes
\* _apply_assertion raise TypeError; no pass/fail value comes back.
C13_InvalidExpectationType ==
    (Applied /\ tst.expected.t \notin {"bool", "dict"}) =>
        tst.out.raised = "TypeError"

\* a string given as the expectation
C13_Witness ==
    /\ Applied /\ tst.expected = PyVal("str", 0)
    /\ tst.out.raised = "TypeError"

\* C14: the expectation {match: b, comparison: 'eq'} with a boolean b has
\* the outcome of the literal expectation b, and {match: b, comparison:
\* 'ne'} passes against o exactly when o != b.
C14_BooleanLiteralEquivalence ==
    (Applied /\ tst.expected.t = "dict" /\ tst.expected.match.t = "bool") =>
        /\ tst.expected.comparison = "eq" =>
              tst.out = _apply_assertion(tst.expected.match, tst.result)
        /\ tst.expected.comparison = "ne" =>
              /\ tst.out.raised = ""
              /\ tst.out.value = ~PyEq(tst.result, tst.expected.match)

\* the adapter's name of a kind of the beacon's table
KindName ==
    "==" :> "eq" @@ "!=" :> "ne" @@ "<" :> "lt" @@ "<=" :> "le"
         @@ ">" :> "gt" @@ ">=" :> "ge"
Events == {bcn.out.ret[i] : i \in DOMAIN bcn.out.ret}
\* site s answered with JSON holding a number at the path of its item
Compared(s) ==
    LET site == bcn.config[s]
    IN  /\ site.resp.ok /\ site.resp.body.json /\ site.resp.body.has
        /\ site.json_response # <<>>
        /\ site.json_response[1].comp \in DOMAIN KindName
\* the beacon reported the item of site s as failed
Mismatched(s) ==
    LET site == bcn.config[s]
        item == site.json_response[1]
    IN  [expected |-> item.value, received |-> site.resp.body.v,
         url |-> URLs[s], path |-> item.path] \in Events

\* C15: the beacon applies each kind as comparison(received, expected), so
\* an item fails exactly when `received kind expected` does not hold, which
\* is the verdict of _apply_assertion on the same triple.
C15_OperandOrder ==
    (BeaconDone /\ bcn.out.raised = "") =>
        \A s \in SiteIndexes : Compared(s) =>
            LET site == bcn.config[s]
                item == site.json_response[1]
                kind == KindName[item.comp]
                adapter == _apply_assertion(
                               ExpectDict(PyVal("int", item.value), kind),
                               PyVal("int", site.resp.body.v))
            IN  /\ Mismatched(s) =
                      ~Relation(kind, site.resp.body.v, item.value)
                /\ Mismatched(s) = ~adapter.value

(***************************************************************************)
(* Properties of the Heroku diff helpers                                   *)
(***************************************************************************)
\* the module globals as they are at import time
InitialG == [flags |-> InitialFlags, hdiff |-> EmptyDict, pdiff |-> EmptyDict]
NoDifferenceReported(g) ==
    /\ ~AnyFlag(g.flags)
    /\ DOMAIN g.hdiff = {}
    /\ DOMAIN g.pdiff = {}

\* C16: when update_app_config_vars has diffed a mapping against an equal
\* one, every mismatch flag is false and both difference mappings are
\* empty, and _diff_app_config_vars judged the state equivalent.
C16_DiffIdempotence ==
    (IsHerokuUpdate /\ NoDifference) =>
        /\ NoDifferenceReported(G)
        /\ last.test => last.ret["changes"]["result"] = "True"

\* C17: whatever calls came before, a call of update_app_config_vars
\* returns, calls and leaves in the globals what it would as the first call
\* of a fresh process.
C17_NoCarryOver ==
    (loaded = "heroku") =>
        \A config_vars \in ConfigVars, test \in BOOLEAN,
           fetchFails \in BOOLEAN, applyFails \in BOOLEAN,
           refetchFails \in BOOLEAN :
            LET now == update_app_config_vars(AppName, config_vars, test,
                           heroku, G, fetchFails, applyFails, refetchFails)
                fresh == update_app_config_vars(AppName, config_vars, test,
                             heroku, InitialG, fetchFails, applyFails,
                             refetchFails)
            IN  /\ now.G = fresh.G
                /\ now.ret = fresh.ret
                /\ now.calls = fresh.calls

\* C18: what the diff of (a, b) reports on the pillar side is what the diff
\* of (b, a) reports on the Heroku side, and the other way round.
C18_DiffSymmetry ==
    (loaded = "heroku") =>
        \A a \in ConfigVars, b \in ConfigVars :
            LET ab == _diff_heroku_pillar_vars(a, b, G)
                ba == _diff_heroku_pillar_vars(b, a, G)
            IN  /\ ab.pdiff = ba.hdiff
                /\ ab.hdiff = ba.pdiff

\* the request of site s failed, or was answered with a non-2xx status
RequestFailed(s) ==
    \/ ~bcn.config[s].resp.ok
    \/ bcn.config[s].resp.status_code \notin 200..299
\* what beacon() did for site s
Did(s, op) ==
    \E i \in DOMAIN bcn.out.log : bcn.out.log[i] = Note(URLs[s], op)
\* the exception that ended beacon() was raised while it worked on site s
RaisedAt(s) ==
    /\ bcn.out.raised # ""
    /\ bcn.out.log[Len(bcn.out.log)].url = URLs[s]

\* C19: for a site whose request fails or is answered non-2xx, beacon()
\* appends an event, compares no json or html item of that site, raises
\* nothing and goes on to the next site.
C19_FailureContained ==
    BeaconDone =>
        \A s \in SiteIndexes : (RequestFailed(s) /\ Did(s, "get")) =>
            /\ ~RaisedAt(s)
            /\ Did(s, "append")
            /\ ~Did(s, "json") /\ ~Did(s, "html")
            /\ s < Len(bcn.config) => Did(s + 1, "get")

(***************************************************************************)
(* Properties of _get_method_result                                        *)
(***************************************************************************)
Probed == probe.phase = "done"
\* a method was probed with no 'parameter' to pass to it
MissingParameter ==
    /\ probe.attr = "method"
    /\ "parameter" \notin probe.method_arg.keys

\* C20: probing a method without a 'parameter' argument fails with
\* InvalidArgumentError, and with no other error.
C20_MissingParameter ==
    (Probed /\ MissingParameter) => probe.out.raised = "InvalidArgumentError"

\* the errors the adapter is to raise for a capability it cannot probe
DeclaredErrors == {"UnsupportedCapabilityError", "InvalidArgumentError"}

\* C21: probing a name the module does not expose fails with the adapter's
\* declared error.
C21_UnknownCapability ==
    (Probed /\ probe.attr = "missing") => probe.out.raised \in DeclaredErrors

(***************************************************************************)
(* Properties of run_tests                                                 *)
(***************************************************************************)
RunDone == run.phase = "done"
MethodIndexes == DOMAIN run.methods
\* every declared name is a property, or a method declared with the
\* 'parameter' to probe it with, and every expectation can be evaluated
Probeable ==
    /\ run.supported
    /\ \A i \in MethodIndexes :
          LET m == run.methods[i]
          IN  /\ m.attr = "property" \/ (m.attr = "method" /\ m.parameter)
              /\ _apply_assertion(m.arg, m.value).raised = ""
\* the assertion declared for a method passes on what its capability gives
Passes(m) == _apply_assertion(m.arg, m.value).value

\* C22: run_tests returns success exactly when every declared method's
\* assertion passed, with one message line per declared method, each method
\* being probed with its own declared parameter.
C22_RunTestsAggregation ==
    (RunDone /\ Probeable) =>
        /\ run.out.raised = ""
        /\ run.out.success = (\A i \in MethodIndexes : Passes(run.methods[i]))
        /\ Len(run.out.msgs) = Len(run.methods)

(***************************************************************************)
(* Properties of the Heroku state functions                                *)
(***************************************************************************)
IsHerokuOverride == last.fn = "heroku.override_app_config_vars"
Pillar == last.args[2]
\* the call was no dry run and returned result True
Succeeded == ~last.test /\ Returned /\ last.ret["result"] = "True"

\* C23: after a non-dry-run update_app_config_vars that returned result
\* True, Heroku holds every pillar key with the pillar value, every other
\* key it had keeps its value, and changes['new'] is the re-fetched state.
C23_UpdateContract ==
    (IsHerokuUpdate /\ Succeeded) =>
        /\ \A k \in DOMAIN Pillar :
              k \in DOMAIN heroku /\ heroku[k] = Pillar[k]
        /\ FetchOk =>
              \A k \in (DOMAIN Fetched.vars) \ (DOMAIN Pillar) :
                  k \in DOMAIN heroku /\ heroku[k] = Fetched.vars[k]
        /\ CallsTo(ApplyFns) # {} =>
              last.ret["changes"]["new"]["heroku"]
                  = last.calls[Len(last.calls)].r

\* C24: after a non-dry-run override_app_config_vars that returned result
\* True, Heroku's config vars are exactly the pillar config_vars.
C24_OverrideContract ==
    (IsHerokuOverride /\ Succeeded) => heroku = Pillar

\* every apply call of the last call reported success
AppliedAll == \A i \in CallsTo(ApplyFns) : ApplySucceeded(i)
\* the same call made once more, right away, with nothing failing
Again ==
    IF IsPresent
    THEN present(DistName, last.args[2], last.args[3], FALSE, aws, cache,
                 FALSE, 0)
    ELSE update_app_config_vars(AppName, Pillar, FALSE, heroku, G, FALSE,
                                FALSE, FALSE)
AgainApplies ==
    \E i \in DOMAIN Again.calls : Again.calls[i].fn \in ApplyFns

\* C25: after a non-dry-run present or update_app_config_vars that
\* succeeded, the same call made again finds no difference: it makes no
\* apply call and returns result True with changes {}.
C25_ConvergenceIdempotence ==
    (IsConverge /\ Succeeded /\ FetchOk /\ AppliedAll) =>
        /\ ~AgainApplies
        /\ Again.raised = ""
        /\ Again.ret["result"] = "True"
        /\ DOMAIN Again.ret["changes"] = {}


(***************************************************************************)
(* Properties of the case conversions                                      *)
(***************************************************************************)
Converted(fn) == conv.phase = "done" /\ conv.fn = fn

\* an identifier made of non-empty words separated by single underscores
WordsIdentifier(s) == /\ s # <<>>
                      /\ s[1] # "_"
                      /\ s[Len(s)] # "_"
                      /\ \A i \in 1..(Len(s) - 1) : ~(s[i] = "_" /\ s[i + 1] = "_")

\* the lower-cased identifier, with one underscore before each upper-case
\* letter that follows a lower-case letter
RECURSIVE SnakeCaseOf(_, _)
SnakeCaseOf(s, i) ==
    IF i > Len(s) THEN <<>>
    ELSE (IF i > 1 /\ s[i] \in UpperCase /\ s[i - 1] \in LowerCase THEN <<"_">> ELSE <<>>)
         \o <<lower(s[i])>> \o SnakeCaseOf(s, i + 1)

\* C26: _to_snake_case of an identifier is the lower-cased identifier with
\* one underscore inserted before each interior upper-case letter that
\* follows a lower-case letter; no other character is dropped or altered
\* (so a snake_case input comes back unchanged).
C26_SnakeCase ==
    (Converted("_to_snake_case") /\ WordsIdentifier(conv.input))
        => conv.out = SnakeCaseOf(conv.input, 1)

\* the words of the identifier, first letter upper-cased, joined
RECURSIVE PascalCaseOf(_, _)
PascalCaseOf(s, i) ==
    IF i > Len(s) THEN <<>>
    ELSE IF s[i] = "_" THEN PascalCaseOf(s, i + 1)
    ELSE <<IF i = 1 \/ s[i - 1] = "_" THEN upper(s[i]) ELSE s[i]>> \o PascalCaseOf(s, i + 1)

\* C27: _to_pascal_case of an underscore-separated identifier has no
\* underscore and no whitespace, the first letter of each word is
\* upper-cased and every other character is kept.
C27_PascalCase ==
    (Converted("_to_pascal_case") /\ WordsIdentifier(conv.input))
        => /\ \A i \in DOMAIN conv.out : conv.out[i] \notin {"_", " "}
           /\ conv.out = PascalCaseOf(conv.input, 1)


\* the update_distribution call of the last present returned result True
UpdateSucceeded(i) == "result" \in DOMAIN last.calls[i].r
\* the tags argument of that call
DesiredTags(i) == last.calls[i].args[3]

\* C28: after update_distribution returned result True for a non-empty
\* desired tags mapping, the distribution's tags are the desired tags: a
\* changed tag carries its new value, a new tag is added, an old one removed.
C28_TagConvergence ==
    \A i \in CallsTo(UpdateFn) :
        (UpdateSucceeded(i) /\ DOMAIN DesiredTags(i) # {})
            => aws.tags = DesiredTags(i)


\* the notes of the appended events: the k-th one belongs to ret[k]
Appends == SelectSeq(bcn.out.log, LAMBDA n : n.op = "append")
\* the site that beacon() was working on when it appended ret[k]
SiteOfEvent(k) == CHOOSE s \in DOMAIN URLs : URLs[s] = Appends[k].url
\* the outcome of that site's own request in this call
OwnResponse(k) == bcn.config[SiteOfEvent(k)].resp

\* C29: every event beacon() appends while it works on a site comes from
\* the response to that site's own request: a status code event carries
\* the status of that response, a mismatch event the value received in it;
\* the response of an earlier site is never used for a site whose request
\* failed.
C29_ResponseIsolation ==
    BeaconDone =>
        \A k \in DOMAIN bcn.out.ret :
            LET event == bcn.out.ret[k]
                own == OwnResponse(k)
            IN  /\ "status_code" \in DOMAIN event =>
                       own.ok /\ event.status_code = own.status_code
                /\ "received" \in DOMAIN event =>
                       own.ok /\ own.body.json /\ own.body.has
                       /\ event.received = own.body.v


(***************************************************************************)
(* Properties of the distribution cache                                    *)
(***************************************************************************)
ModCalled(fn) == mcall.fn = fn
ModReturned(key) == mcall.raised = "" /\ key \in DOMAIN mcall.r
\* update_distribution issued a boto3 call
IssuedCall == ModCalled("update_distribution") /\ mcall.api # <<>>
\* update_distribution got the distribution and entered its try block
EnteredTry ==
    /\ ModCalled("update_distribution")
    /\ ModReturned("result") \/ mcall.api # <<>>
\* the cache entry is gone: the next get_distribution reads what AWS holds
Fresh ==
    /\ cache = NoneDist
    /\ get_distribution(aws, cache, FALSE).r.result = aws

CacheFreshnessAsClaimed ==
    /\ (ModCalled("create_distribution") /\ ModReturned("result"))' => Fresh'
    /\ IssuedCall' => Fresh'
    /\ (ModCalled("create_distribution") /\ ModReturned("error"))' => cache' = cache
    /\ (ModCalled("update_distribution") /\ ~IssuedCall)' => cache' = cache

CacheFreshnessOfCode ==
    /\ (ModCalled("create_distribution") /\ ModReturned("result"))' => Fresh'
    /\ EnteredTry' => Fresh'
    /\ (ModCalled("create_distribution") /\ ModReturned("error"))' => cache' = cache
    /\ (ModCalled("update_distribution") /\ ~EnteredTry)' => cache' = cache

====
